---- MODULE Spec2Model ----
(***************************************************************************)
(* A model of the Zordon (Opendemo) browser extension: the content-script  *)
(* recorder (selector generation), the step player injected into the page  *)
(* (DOMPlayer) and the background service worker (recording sessions,      *)
(* chrome.storage.local, the Supabase sync).                               *)
(*                                                                         *)
(* Selectors are CSS selector strings in the source.  Here a selector is   *)
(* a record that names what the string says (kind "id" for "#v", "class"   *)
(* for "tag.c1.c2", "path" for "tag" / "tag:nth-child(k)", "attr" for      *)
(* "tag[data-testid=..][name=..]"), and querySelector evaluates it against *)
(* the live DOM the way the browser evaluates the string.                  *)
(***************************************************************************)
EXTENDS Integers, Sequences, FiniteSets, TLC

VARIABLES
    \* the page
    dom,              \* element index -> its tag, attributes, value, style
    nested,           \* TRUE: elements 2.. are children of element 1
    href,             \* window.location.href of the page
    \* the recorder / locator pipeline (one recorded target)
    lphase,           \* "page" | "recorded" | "drifted" | "located"
    recTarget,        \* the element the recorded event was dispatched on
    recSelectors,     \* generateSelectors(recTarget) at record time
    located,          \* findElement(recSelectors) at replay time
    click,            \* the geometry of one recorded and replayed click
    pace,             \* two recorded events and the delay between their steps
    \* DOMPlayer
    steps,            \* this.steps
    currentStepIndex, \* this.currentStepIndex (0-based)
    isPlaying,        \* this.isPlaying
    playbackInterval, \* this.playbackInterval: a timer id, or NoTimer
    playerContainer,  \* this.playerContainer: NoContainer, or the text it shows
    \* the page's event loop and window, as the player sees them
    timers,           \* the pending setTimeout callbacks
    timerSeq,         \* the last timer id setTimeout returned
    scrollY,          \* window.scrollY
    alerts,           \* the number of alert() dialogs shown
    \* the observable history of the player
    playCount,        \* ZORDON_PLAY messages handled so far
    execLog,          \* the executeStep calls with their steps, in order
    dispatched,       \* the synthesized events dispatched, in order
    cancelled,        \* the playbacks cleanup() has ended
    \* BackgroundService
    currentRecording, \* this.currentRecording: a reference into heap, or NoRef
    recordingStatus,  \* this.recordingStatus
    playbackEnabled,  \* this.playbackEnabled
    heap,             \* the RecordingSession objects startRecording created
    handlers,         \* the async message handlers that are at an await
    \* the browser
    storage,          \* chrome.storage.local
    channel,          \* runtime/tabs/window messages and responses in flight
    activeTab,        \* the active tab of the current window
    content,          \* tab -> the DOMRecorder content script of its page
    supabase,         \* the rows inserted into the Supabase table "events"
    \* the observable history of the extension
    answers,          \* the sendResponse calls the popup's requests got
    reqCount,         \* popup requests sent so far
    captured,         \* the sessions stopped while recording, with their events
    delivered,        \* the recordings the page's player was handed
    checked,          \* the isPlaybackEnabled() results, per PLAY request
    restarts,         \* how often the service worker was started again
    currentStatus     \* the popup's this.currentStatus

pageVars == <<dom, nested, href>>
locVars == <<lphase, recTarget, recSelectors, located, click, pace>>
playerVars == <<steps, currentStepIndex, isPlaying, playbackInterval,
                playerContainer, timers, timerSeq, scrollY, alerts,
                playCount, execLog, dispatched, cancelled>>
extVars == <<currentRecording, recordingStatus, playbackEnabled, heap,
             handlers, storage, channel, activeTab, content, supabase,
             answers, reqCount, captured, delivered, checked, restarts,
             currentStatus>>

(***************************************************************************)
(* Bounds of the model.                                                    *)
(***************************************************************************)
NumElements == 2
MaxSteps == 3
MaxPlays == 2
NumTabs == 2
MaxRequests == 2
MaxEvents == 1
MaxDeletes == 1
MaxRestarts == 1

Elems == 1 .. NumElements

\* document.body (never a selector match in this model) and "no element".
Null == 0

\* F applied to the value of x: x is evaluated once, as a JavaScript
\* expression bound to a const is.
Bind(x, F(_)) == CHOOSE r \in {F(v) : v \in {x}} : TRUE

(***************************************************************************)
(* The DOM.                                                                *)
(***************************************************************************)
Tags == {"button", "input"}
Ids == {"", "a"}
ClassNames == {{}, {"btn"}}
TestIds == {"", "t"}

\* The name attribute is drawn for input elements only.
NamesOf(tag) == IF tag = "input" THEN {"", "q"} ELSE {""}

\* A freshly loaded element: value empty, style attribute empty.
ElementStates ==
    UNION { [tag : {t}, id : Ids, cls : ClassNames, testid : TestIds,
             name : NamesOf(t), present : {TRUE}, value : {""}, style : {0}]
            : t \in Tags }

Pages == [Elems -> ElementStates]

\* parentElement: element 1 is a child of body; the others are children of
\* body, or of element 1 when the page is nested.
Parent(n, e) == IF n /\ e > 1 THEN 1 ELSE Null

\* An element is attached when it and its ancestors have not been removed.
Attached(d, n, e) ==
    /\ d[e].present
    /\ Parent(n, e) # Null => d[Parent(n, e)].present

\* parent.children, in document order, as the set of their indices.
Children(d, n, p) == {c \in Elems : Parent(n, c) = p /\ Attached(d, n, c)}

\* The 1-based position of e among the elements of S (document order).
IndexIn(S, e) == Cardinality({c \in S : c <= e})

(***************************************************************************)
(* Selectors.                                                              *)
(***************************************************************************)
Sel(kind, tag, val, cls, nth, testid, name) ==
    [kind |-> kind, tag |-> tag, val |-> val, cls |-> cls, nth |-> nth,
     testid |-> testid, name |-> name]

IdSel(id) == Sel("id", "", id, {}, 0, "", "")
ClassSel(tag, cls) == Sel("class", tag, "", cls, 0, "", "")
PathSel(tag, nth) == Sel("path", tag, "", {}, nth, "", "")
AttrSel(tag, testid, name) == Sel("attr", tag, "", {}, 0, testid, name)

\* Whether the live element e matches selector s (Element.matches).
Matches(d, n, s, e) ==
    /\ Attached(d, n, e)
    /\ CASE s.kind = "id" -> d[e].id = s.val
         [] s.kind = "class" -> d[e].tag = s.tag /\ s.cls \subseteq d[e].cls
         [] s.kind = "path" ->
                /\ d[e].tag = s.tag
                /\ s.nth # 0 => IndexIn(Children(d, n, Parent(n, e)), e) = s.nth
         [] s.kind = "attr" ->
                /\ d[e].tag = s.tag
                /\ s.testid # "" => d[e].testid = s.testid
                /\ s.name # "" => d[e].name = s.name
         [] OTHER -> FALSE

MatchSet(d, n, s) == {e \in Elems : Matches(d, n, s, e)}

\* document.querySelector: the first match in document order, or null.
querySelector(d, n, s) ==
    IF MatchSet(d, n, s) = {} THEN Null
    ELSE CHOOSE e \in MatchSet(d, n, s) : \A f \in MatchSet(d, n, s) : e <= f

(***************************************************************************)
(* DOMRecorder.generateSelectors.                                          *)
(***************************************************************************)
\* Strategy 1: the id.
IdStrategy(d, e) == IF d[e].id # "" THEN <<IdSel(d[e].id)>> ELSE <<>>

\* Strategy 2: tag.class1.class2 when className is a non-empty string.
ClassStrategy(d, e) ==
    IF d[e].cls # {} THEN <<ClassSel(d[e].tag, d[e].cls)>> ELSE <<>>

\* One level of the path: the tag, with :nth-child(k) when the parent has
\* more than one child of that tag, k being the position among THOSE
\* children (siblings.indexOf(current) + 1).
PathSegment(d, n, e) ==
    LET sameTag == {c \in Children(d, n, Parent(n, e)) : d[c].tag = d[e].tag}
    IN  IF Cardinality(sameTag) > 1
        THEN PathSel(d[e].tag, IndexIn(sameTag, e))
        ELSE PathSel(d[e].tag, 0)

\* Strategy 3: the path from the element up to body, or up to the nearest
\* element with an id (itself included), which ends the walk.
RECURSIVE PathStrategy(_, _, _)
PathStrategy(d, n, e) ==
    IF e = Null THEN <<>>
    ELSE IF d[e].id # "" THEN <<IdSel(d[e].id)>>
    ELSE PathStrategy(d, n, Parent(n, e)) \o <<PathSegment(d, n, e)>>

\* Strategy 4: the tag with the data-testid and name attributes it has
\* (the elements of the modelled pages have no type attribute).
AttrStrategy(d, e) ==
    IF d[e].testid # "" \/ d[e].name # ""
    THEN <<AttrSel(d[e].tag, d[e].testid, d[e].name)>>
    ELSE <<>>

\* The strategies in the order of the source; a strategy that returns null
\* adds nothing.
StrategyResults(d, n, e) ==
    <<IdStrategy(d, e), ClassStrategy(d, e), PathStrategy(d, n, e),
      AttrStrategy(d, e)>>

DropEmpty(rs) == SelectSeq(rs, LAMBDA r : r # <<>>)

generateSelectors(d, n, e) ==
    LET selectors == DropEmpty(StrategyResults(d, n, e))
    IN  IF selectors = <<>> THEN <<<<PathSel(d[e].tag, 0)>>>> ELSE selectors

(***************************************************************************)
(* DOMPlayer.findElement.                                                  *)
(***************************************************************************)
RECURSIVE Flatten(_)
Flatten(ss) == IF ss = <<>> THEN <<>> ELSE Head(ss) \o Flatten(Tail(ss))

RECURSIVE FirstHit(_, _, _)
FirstHit(d, n, selectorList) ==
    Bind(selectorList, LAMBDA flat :
        IF flat = <<>> THEN Null
        ELSE Bind(querySelector(d, n, Head(flat)), LAMBDA element :
                 IF element # Null THEN element
                 ELSE FirstHit(d, n, Tail(flat))))

\* A variant of findElement that tries the last selector first.
RECURSIVE LastHit(_, _, _)
LastHit(d, n, selectorList) ==
    Bind(selectorList, LAMBDA flat :
        IF flat = <<>> THEN Null
        ELSE Bind(LastHit(d, n, Tail(flat)), LAMBDA element :
                 IF element # Null THEN element
                 ELSE querySelector(d, n, Head(flat))))

findElementReversed(d, n, selectors) == LastHit(d, n, Flatten(selectors))

\* Every selector of every selector array, in order; the first match wins.
findElement(d, n, selectors) == FirstHit(d, n, Flatten(selectors))

(***************************************************************************)
(* DOMPlayer.  The handlers are functions on the record P of everything    *)
(* they read and write; an action applies one handler to the state.        *)
(***************************************************************************)
NoTimer == 0

\* this.playerContainer: null, or the text of the container's innerHTML.
NoContainer == "null"
PlayingHtml == "Playing Recording"
CompleteHtml == "Playback Complete! All steps executed successfully"

\* The delays of the source's setTimeout calls, in milliseconds.
playbackSpeed == 1
MinStepDelay == 500
StepDelayBase == 1000
DispatchDelay == 200
HighlightMs == 1000
AutoHideMs == 3000

Max(a, b) == IF a >= b THEN a ELSE b

\* Math.max(500, 1000 / this.playbackSpeed)
StepDelay == Max(MinStepDelay, StepDelayBase \div playbackSpeed)

P == [steps |-> steps, currentStepIndex |-> currentStepIndex,
      isPlaying |-> isPlaying, playbackInterval |-> playbackInterval,
      playerContainer |-> playerContainer, timers |-> timers,
      timerSeq |-> timerSeq, scrollY |-> scrollY, alerts |-> alerts,
      playCount |-> playCount, execLog |-> execLog,
      dispatched |-> dispatched, cancelled |-> cancelled,
      dom |-> dom, nested |-> nested, href |-> href]

\* The state after a handler: every variable takes its field of the record
\* the handler returns.
Becomes(q) ==
    \E v \in {q} :
        /\ steps' = v.steps
        /\ currentStepIndex' = v.currentStepIndex
        /\ isPlaying' = v.isPlaying
        /\ playbackInterval' = v.playbackInterval
        /\ playerContainer' = v.playerContainer
        /\ timers' = v.timers
        /\ timerSeq' = v.timerSeq
        /\ scrollY' = v.scrollY
        /\ alerts' = v.alerts
        /\ playCount' = v.playCount
        /\ execLog' = v.execLog
        /\ dispatched' = v.dispatched
        /\ cancelled' = v.cancelled
        /\ dom' = v.dom
        /\ nested' = v.nested
        /\ href' = v.href

\* setTimeout(callback, delay) called in task `task`: the callback is what
\* kind, play, idx, el, orig and val say.
setTimeout(p, task, kind, delay, idx, el, orig, val) ==
    Bind(p, LAMBDA v :
        [v EXCEPT !.timerSeq = @ + 1,
                  !.timers = @ \cup {[id |-> v.timerSeq + 1, task |-> task,
                                      kind |-> kind, delay |-> delay,
                                      play |-> v.playCount, idx |-> idx,
                                      el |-> el, orig |-> orig, val |-> val]}])

\* clearTimeout(id)
clearTimeout(p, id) == [p EXCEPT !.timers = {t \in @ : t.id # id}]

\* A variant of cleanup that leaves the step timer pending.
cleanupKeepTimer(p) ==
    Bind(p, LAMBDA v :
        [v EXCEPT !.isPlaying = FALSE,
                  !.currentStepIndex = 0,
                  !.steps = <<>>,
                  !.playerContainer = NoContainer,
                  !.cancelled = IF v.playCount > 0
                                THEN @ \cup {v.playCount} ELSE @])

\* A variant of cleanup that leaves currentStepIndex as it is.
cleanupNoReset(p) ==
    Bind(p, LAMBDA v :
        LET c == IF v.playbackInterval # NoTimer
                 THEN [clearTimeout(v, v.playbackInterval)
                         EXCEPT !.playbackInterval = NoTimer]
                 ELSE v
        IN  [c EXCEPT !.isPlaying = FALSE,
                      !.steps = <<>>,
                      !.playerContainer = NoContainer,
                      !.cancelled = IF v.playCount > 0
                                    THEN @ \cup {v.playCount} ELSE @])

\* DOMPlayer.cleanup
cleanup(p) ==
    Bind(p, LAMBDA v :
        LET c == IF v.playbackInterval # NoTimer
                 THEN [clearTimeout(v, v.playbackInterval)
                         EXCEPT !.playbackInterval = NoTimer]
                 ELSE v
        IN  [c EXCEPT !.isPlaying = FALSE,
                      !.currentStepIndex = 0,
                      !.steps = <<>>,
                      !.playerContainer = NoContainer,
                      !.cancelled = IF v.playCount > 0
                                    THEN @ \cup {v.playCount} ELSE @])

\* DOMPlayer.highlightElement: the outline is appended to the style
\* attribute (style counts the outlines appended), and a timer restores the
\* style read before.
highlightElement(p, task, idx, el) ==
    Bind(p.dom[el].style, LAMBDA originalStyle :
        setTimeout([p EXCEPT !.dom[el].style = originalStyle + 1],
                   task, "unhighlight", HighlightMs, idx, el, originalStyle, ""))

\* executeClick, executeChange, executeKeyPress: locate, highlight, and
\* defer the dispatch.
executeTargeted(p, task, idx, step, kind, ready) ==
    Bind(findElement(p.dom, p.nested, step.selectors), LAMBDA element :
        IF element # Null /\ ready
        THEN setTimeout(highlightElement(p, task, idx, element),
                        task, kind, DispatchDelay, idx, element, 0, step.value)
        ELSE p)

\* DOMPlayer.executeScroll
executeScroll(p) == [p EXCEPT !.scrollY = @ + 100]

\* A variant of executeNavigate that does navigate.
executeNavigateGo(p, step) ==
    IF step.url # "" /\ step.url # p.href
    THEN [p EXCEPT !.href = step.url]
    ELSE p

\* DOMPlayer.executeNavigate: the step is logged to the console when its
\* url is set and is not the page's, and nothing else is done.
executeNavigate(p, step) ==
    IF step.url # "" /\ step.url # p.href THEN p ELSE p

\* Whether executing the step throws inside executeStep's try block: the
\* step's target.selectors is not iterable.
Throws(step) ==
    step.type \in {"click", "change", "keyDown", "keyUp"} /\ step.badTarget

\* DOMPlayer.executeStep: the switch, inside try/catch.
executeStep(p, task, idx, step) ==
    Bind([p EXCEPT !.execLog = Append(@, [play |-> p.playCount, idx |-> idx,
                                            step |-> step])],
         LAMBDA q :
        IF Throws(step) THEN q
        ELSE CASE step.type = "navigate" -> executeNavigate(q, step)
               [] step.type = "click" ->
                      executeTargeted(q, task, idx, step, "click", TRUE)
               [] step.type = "change" ->
                      executeTargeted(q, task, idx, step, "change", TRUE)
               [] step.type \in {"keyDown", "keyUp"} ->
                      executeTargeted(q, task, idx, step, step.type, step.key # "")
               [] step.type = "scroll" -> executeScroll(q)
               [] OTHER -> q)

\* DOMPlayer.showCompletionMessage
showCompletionMessage(p, task) ==
    IF p.playerContainer # NoContainer
    THEN setTimeout([p EXCEPT !.playerContainer = CompleteHtml],
                    task, "cleanup", AutoHideMs, p.currentStepIndex, Null, 0, "")
    ELSE p

\* A variant of executeNextStep in which a step that throws ends the chain:
\* the index is not advanced and no timer is scheduled.
executeNextStepNoCatch(p0, task) ==
    Bind(p0, LAMBDA p :
        IF ~p.isPlaying \/ p.currentStepIndex >= Len(p.steps)
        THEN showCompletionMessage([p EXCEPT !.isPlaying = FALSE], task)
        ELSE IF Throws(p.steps[p.currentStepIndex + 1]) THEN p
        ELSE Bind(executeStep(p, task, p.currentStepIndex,
                              p.steps[p.currentStepIndex + 1]), LAMBDA q :
             Bind(setTimeout([q EXCEPT !.currentStepIndex = @ + 1], task, "step",
                             StepDelay, p.currentStepIndex, Null, 0, ""),
                  LAMBDA s : [s EXCEPT !.playbackInterval = s.timerSeq])))

\* A variant of executeNextStep that completes one step early.
executeNextStepEarly(p0, task) ==
    Bind(p0, LAMBDA p :
        IF ~p.isPlaying \/ p.currentStepIndex + 1 >= Len(p.steps)
        THEN showCompletionMessage([p EXCEPT !.isPlaying = FALSE], task)
        ELSE Bind(executeStep(p, task, p.currentStepIndex,
                              p.steps[p.currentStepIndex + 1]), LAMBDA q :
             Bind(setTimeout([q EXCEPT !.currentStepIndex = @ + 1], task, "step",
                             StepDelay, p.currentStepIndex, Null, 0, ""),
                  LAMBDA s : [s EXCEPT !.playbackInterval = s.timerSeq])))

\* A variant of executeNextStep that advances the index by two.
executeNextStepSkip(p0, task) ==
    Bind(p0, LAMBDA p :
        IF ~p.isPlaying \/ p.currentStepIndex >= Len(p.steps)
        THEN showCompletionMessage([p EXCEPT !.isPlaying = FALSE], task)
        ELSE Bind(executeStep(p, task, p.currentStepIndex,
                              p.steps[p.currentStepIndex + 1]), LAMBDA q :
             Bind(setTimeout([q EXCEPT !.currentStepIndex = @ + 2], task, "step",
                             StepDelay, p.currentStepIndex, Null, 0, ""),
                  LAMBDA s : [s EXCEPT !.playbackInterval = s.timerSeq])))

\* DOMPlayer.executeNextStep
executeNextStep(p0, task) ==
    Bind(p0, LAMBDA p :
        IF ~p.isPlaying \/ p.currentStepIndex >= Len(p.steps)
        THEN showCompletionMessage([p EXCEPT !.isPlaying = FALSE], task)
        ELSE Bind(executeStep(p, task, p.currentStepIndex,
                              p.steps[p.currentStepIndex + 1]), LAMBDA q :
             Bind(setTimeout([q EXCEPT !.currentStepIndex = @ + 1], task, "step",
                             StepDelay, p.currentStepIndex, Null, 0, ""),
                  LAMBDA s : [s EXCEPT !.playbackInterval = s.timerSeq])))

\* DOMPlayer.startPlayback
startPlayback(p, task) ==
    IF Len(p.steps) = 0 THEN p
    ELSE executeNextStep([p EXCEPT !.isPlaying = TRUE], task)

\* DOMPlayer.createPlayerUI: the container, not displayed.
createPlayerUI(p) == [p EXCEPT !.playerContainer = PlayingHtml]

\* A variant of playRecording without the check for an empty step list.
playRecordingNoCheck(p, task, recSteps) ==
    Bind([cleanup(p) EXCEPT !.steps = recSteps, !.currentStepIndex = 0],
         LAMBDA c : startPlayback(createPlayerUI(c), task))

\* DOMPlayer.playRecording(recording), recording.steps being recSteps.
playRecording(p, task, recSteps) ==
    Bind([cleanup(p) EXCEPT !.steps = recSteps, !.currentStepIndex = 0],
         LAMBDA c :
        IF Len(c.steps) = 0
        THEN [c EXCEPT !.alerts = @ + 1]
        ELSE startPlayback(createPlayerUI(c), task))

\* A variant of the event loop that runs pending timers in any order.
MustPrecedeNever(u, t) == FALSE

\* The order in which the event loop runs pending timers: u runs before t
\* when u was set no later than t with a delay no longer, or in the same
\* task with a shorter delay.
MustPrecede(u, t) ==
    \/ u.id < t.id /\ u.delay <= t.delay
    \/ u.task = t.task /\ u.delay < t.delay

CanFire(t) == \A u \in timers \ {t} : ~MustPrecede(u, t)

\* The timer is taken off the pending set before its callback runs.
Fired(t) == [P EXCEPT !.timers = @ \ {t}]

\* The window's "message" listener receives ZORDON_PLAY.
ZordonPlay(recSteps) ==
    /\ playCount < MaxPlays
    /\ Becomes(playRecording([P EXCEPT !.playCount = @ + 1], timerSeq, recSteps))
    /\ UNCHANGED <<locVars, extVars>>

\* The step timer: () => this.executeNextStep()
StepTimer ==
    \E t \in timers :
        /\ t.kind = "step"
        /\ CanFire(t)
        /\ Becomes(executeNextStep(Fired(t), timerSeq))
        /\ UNCHANGED <<locVars, extVars>>

\* The events a deferred dispatch sends to its element.
EventsOf(kind) ==
    CASE kind = "click" -> <<"click">>
      [] kind = "change" -> <<"input", "change">>
      [] kind = "keyDown" -> <<"keydown">>
      [] kind = "keyUp" -> <<"keyup">>

\* The events one callback dispatches, each with the value its element
\* has when it is dispatched and the value the step recorded.
LogEvents(p, t) ==
    [i \in 1 .. Len(EventsOf(t.kind)) |->
        [play |-> t.play, idx |-> t.idx, el |-> t.el, ev |-> EventsOf(t.kind)[i],
         late |-> t.play \in p.cancelled,
         value |-> p.dom[t.el].value, recorded |-> t.val]]

\* A variant of the callback that dispatches before it sets the value.
dispatchCallbackEventsFirst(p, t) ==
    Bind([p EXCEPT !.dispatched = @ \o LogEvents(p, t)], LAMBDA r :
        IF t.kind = "change" THEN [r EXCEPT !.dom[t.el].value = t.val] ELSE r)

\* A variant of the callback that leaves an element alone that has the
\* recorded value already.
dispatchCallbackIfNew(p, t) ==
    IF t.kind = "change" /\ p.dom[t.el].value = t.val
    THEN p
    ELSE Bind(IF t.kind = "change"
              THEN [p EXCEPT !.dom[t.el].value = t.val] ELSE p,
              LAMBDA r : [r EXCEPT !.dispatched = @ \o LogEvents(r, t)])

\* The callback of the 200 ms timer: executeChange's sets element.value
\* and dispatches input and change; executeClick's and executeKeyPress's
\* dispatch their event.
dispatchCallback(p, t) ==
    Bind(IF t.kind = "change" THEN [p EXCEPT !.dom[t.el].value = t.val] ELSE p,
         LAMBDA r : [r EXCEPT !.dispatched = @ \o LogEvents(r, t)])

\* The 200 ms timer of executeClick, executeChange or executeKeyPress.
DispatchTimer ==
    \E t \in timers :
        /\ t.kind \in {"click", "change", "keyDown", "keyUp"}
        /\ CanFire(t)
        /\ Becomes(dispatchCallback(Fired(t), t))
        /\ UNCHANGED <<locVars, extVars>>

\* The 1000 ms timer of highlightElement.
UnhighlightTimer ==
    \E t \in timers :
        /\ t.kind = "unhighlight"
        /\ CanFire(t)
        /\ Becomes([Fired(t) EXCEPT !.dom[t.el].style = t.orig])
        /\ UNCHANGED <<locVars, extVars>>

\* The 3000 ms timer of showCompletionMessage: () => this.cleanup()
CleanupTimer ==
    \E t \in timers :
        /\ t.kind = "cleanup"
        /\ CanFire(t)
        /\ Becomes(cleanup(Fired(t)))
        /\ UNCHANGED <<locVars, extVars>>

\* The player after construction.
PlayerIdle ==
    /\ steps = <<>>
    /\ currentStepIndex = 0
    /\ isPlaying = FALSE
    /\ playbackInterval = NoTimer
    /\ playerContainer = NoContainer
    /\ timers = {}
    /\ timerSeq = 0
    /\ scrollY = 0
    /\ alerts = 0
    /\ playCount = 0
    /\ execLog = <<>>
    /\ dispatched = <<>>
    /\ cancelled = {}

(***************************************************************************)
(* The steps a recording holds: what DOMRecorder.createEventData and       *)
(* recordNavigationStep put in event.step for the events of a session on   *)
(* RecordedPage, and two steps a recording can hold that the player does   *)
(* not handle.                                                             *)
(***************************************************************************)
\* The page of the recorded session: a search input and a Save button ...
\* The id an element gets when the page drifts.
NewId == "z"

RecordedPage ==
    [e \in Elems |->
        IF e = 1
        THEN [tag |-> "input", id |-> "", cls |-> {}, testid |-> "",
              name |-> "q", present |-> TRUE, value |-> "", style |-> 0]
        ELSE IF e = 2
        THEN [tag |-> "button", id |-> "a", cls |-> {"btn"}, testid |-> "t",
              name |-> "", present |-> TRUE, value |-> "", style |-> 0]
        ELSE [tag |-> "button", id |-> "", cls |-> {}, testid |-> "",
              name |-> "", present |-> TRUE, value |-> "", style |-> 0]]

\* ... which, at replay time, is unchanged, or has a new id on the button,
\* or has lost the button.
PlayerPages ==
    {RecordedPage,
     [RecordedPage EXCEPT ![2].id = NewId],
     [RecordedPage EXCEPT ![2].present = FALSE]}

Step(type, selectors, value, key, url, badTarget) ==
    [type |-> type, selectors |-> selectors, value |-> value, key |-> key,
     url |-> url, badTarget |-> badTarget]

\* DOMRecorder.recordNavigationStep
recordNavigationStep == Step("navigate", <<>>, "", "", "page", FALSE)

\* DOMRecorder.createEventData: the step of a DOM event of type evType on
\* target, value and key being the target's value and the event's key.
createEventData(d, n, evType, target, value, key) ==
    LET selectors == generateSelectors(d, n, target)
    IN  CASE evType = "click" -> Step("click", selectors, "", "", "", FALSE)
          [] evType \in {"input", "change"} ->
                 Step("change", selectors, value, "", "", FALSE)
          [] evType = "keydown" -> Step("keyDown", selectors, "", key, "", FALSE)
          [] evType = "keyup" -> Step("keyUp", selectors, "", key, "", FALSE)
          [] evType = "scroll" -> Step("scroll", selectors, "", "", "", FALSE)
          [] OTHER -> Step("click", selectors, "", "", "", FALSE)

\* A step type of the RecordedStep union that executeStep has no case for.
UnsupportedStep == Step("waitForElement", <<>>, "", "", "", FALSE)

\* A click step whose target.selectors is not an array: iterating it throws.
ThrowingStep == Step("click", <<>>, "", "", "", TRUE)

ClickStep == createEventData(RecordedPage, FALSE, "click", 2, "", "")
ChangeStep == createEventData(RecordedPage, FALSE, "change", 1, "v", "")
KeyStep == createEventData(RecordedPage, FALSE, "keydown", 1, "", "k")
ScrollStep == createEventData(RecordedPage, FALSE, "scroll", 1, "", "")

StepAlphabet ==
    {recordNavigationStep, ClickStep, ChangeStep, KeyStep, ScrollStep,
     UnsupportedStep, ThrowingStep}

\* Every step list of at most MaxSteps steps (the empty one included).
StepLists == UNION {[1 .. k -> StepAlphabet] : k \in 0 .. MaxSteps}


(***************************************************************************)
(* The extension: popup requests, the background service worker's message  *)
(* handlers, the content scripts, chrome.storage.local and Supabase.       *)
(* A handler runs from one await to the next without interruption; a       *)
(* frame of `handlers` is a handler waiting at an await.  A chrome.storage *)
(* call takes effect when it is made.                                      *)
(***************************************************************************)
Tabs == 1 .. NumTabs
NoTab == 0
NoRef == 0
NoUser == "none"
Undefined == "undefined"

\* RecordingStatus
IDLE == "idle"
RECORDING == "recording"

\* The tab whose page holds the modelled DOMPlayer.
PlayerTab == 1

E == [currentRecording |-> currentRecording, recordingStatus |-> recordingStatus,
      playbackEnabled |-> playbackEnabled, heap |-> heap, handlers |-> handlers,
      storage |-> storage, channel |-> channel, activeTab |-> activeTab,
      content |-> content, supabase |-> supabase, answers |-> answers,
      reqCount |-> reqCount, captured |-> captured, delivered |-> delivered,
      checked |-> checked, restarts |-> restarts,
      currentStatus |-> currentStatus]

ExtBecomes(q) ==
    \E v \in {q} :
        /\ currentRecording' = v.currentRecording
        /\ recordingStatus' = v.recordingStatus
        /\ playbackEnabled' = v.playbackEnabled
        /\ heap' = v.heap
        /\ handlers' = v.handlers
        /\ storage' = v.storage
        /\ channel' = v.channel
        /\ activeTab' = v.activeTab
        /\ content' = v.content
        /\ supabase' = v.supabase
        /\ answers' = v.answers
        /\ reqCount' = v.reqCount
        /\ captured' = v.captured
        /\ delivered' = v.delivered
        /\ checked' = v.checked
        /\ restarts' = v.restarts
        /\ currentStatus' = v.currentStatus

\* A handler frame: handler h of kind `kind` waits at pc; tab, ref, list
\* and user are its local variables.
Frame(h, kind, pc, tab, ref, list, user) ==
    [h |-> h, kind |-> kind, pc |-> pc, tab |-> tab, ref |-> ref,
     list |-> list, user |-> user]

\* A message or response in flight.
Msg(to, type, tab, h, events, rec) ==
    [to |-> to, type |-> type, tab |-> tab, h |-> h, events |-> events,
     rec |-> rec]

\* The object startRecording creates: { id, url, startTime, events: [], title }.
\* It has no steps property; ended says that endTime and duration are set.
NewRecording(id) ==
    [id |-> id, events |-> <<>>, ended |-> FALSE, steps |-> Undefined]

\* recording.steps || []
StepsOrEmpty(rec) == IF rec.steps = Undefined THEN <<>> ELSE rec.steps

\* The events of the content script: a navigation event at start, then one
\* event per interaction, each with its step.
NavigationEvent == [type |-> "navigate", step |-> recordNavigationStep]
ClickEvent == [type |-> "click", step |-> ClickStep]

\* saveState: chrome.storage.local.set of the three fields.
saveState(e) ==
    [e EXCEPT !.storage.playbackEnabled = e.playbackEnabled,
              !.storage.recordingStatus = e.recordingStatus,
              !.storage.currentRecording =
                  IF e.currentRecording = NoRef THEN <<>>
                  ELSE <<e.heap[e.currentRecording]>>]

\* A variant of saveRecording's update that always pushes.
UpsertPush(list, rec) == Append(list, rec)

\* The list saveRecording writes: the entry with the recording's id is
\* replaced, or the recording is pushed.
Upsert(list, rec) ==
    IF \E i \in DOMAIN list : list[i].id = rec.id
    THEN LET index == CHOOSE i \in DOMAIN list :
                          /\ list[i].id = rec.id
                          /\ \A j \in DOMAIN list : list[j].id = rec.id => i <= j
         IN  [list EXCEPT ![index] = rec]
    ELSE Append(list, rec)

\* The popup's startRecording and stopRecording after the response: on
\* success they set currentStatus, otherwise they leave it.
popupStatus(status, kind, ok) ==
    IF ok /\ kind = "START" THEN RECORDING
    ELSE IF ok /\ kind = "STOP" THEN IDLE
    ELSE status

\* sendResponse to the popup's request of frame f, and the handler ends;
\* the popup resumes with the response.
Respond(e, f, ok) ==
    [e EXCEPT !.handlers = @ \ {f},
              !.answers = @ \cup {[req |-> f.h, kind |-> f.kind, ok |-> ok]},
              !.currentStatus = popupStatus(@, f.kind, ok)]

\* Frame f moves to g.
Move(e, f, g) == [e EXCEPT !.handlers = (@ \ {f}) \cup {g}]

Send(e, m) == [e EXCEPT !.channel = @ \cup {m}]
Receive(e, m) == [e EXCEPT !.channel = @ \ {m}]

OtherUnchanged == UNCHANGED <<pageVars, locVars, playerVars>>

\* ---- START_RECORDING --------------------------------------------------
\* The popup sends START_RECORDING; the handler awaits chrome.tabs.query.
StartRequest ==
    /\ reqCount < MaxRequests
    /\ ExtBecomes([E EXCEPT
           !.reqCount = @ + 1,
           !.handlers = @ \cup {Frame(reqCount + 1, "START", "query", NoTab,
                                      NoRef, <<>>, NoUser)}])
    /\ OtherUnchanged

\* startRecording after tabs.query and tabs.get: the new currentRecording,
\* the status, saveState.
StartSetup ==
    \E f \in handlers :
        /\ f.kind = "START" /\ f.pc = "query"
        /\ LET id == Len(heap) + 1
               e1 == [E EXCEPT !.heap = Append(@, NewRecording(id)),
                               !.currentRecording = id,
                               !.recordingStatus = RECORDING]
           IN  ExtBecomes(Move(saveState(e1), f,
                               [f EXCEPT !.pc = "saved", !.tab = activeTab]))
        /\ OtherUnchanged

\* startRecording after saveState: chrome.tabs.sendMessage(START_RECORDING).
\* Reading this.currentRecording.id throws when it is null, and sendMessage
\* rejects when the tab has no content script; the catch block resets the
\* fields in memory and handleMessage answers success: false.
StartNotify ==
    \E f \in handlers :
        /\ f.kind = "START" /\ f.pc = "saved"
        /\ IF currentRecording # NoRef /\ content[f.tab].loaded
           THEN ExtBecomes(Move(Send(E, Msg("cs", "START_RECORDING", f.tab, f.h,
                                             <<>>, <<heap[currentRecording]>>)),
                                f, [f EXCEPT !.pc = "awaitCs"]))
           ELSE ExtBecomes(Respond([E EXCEPT !.recordingStatus = IDLE,
                                             !.currentRecording = NoRef],
                                   f, FALSE))
        /\ OtherUnchanged

\* DOMRecorder.handleMessage START_RECORDING -> startRecording(sessionId).
CsStart ==
    \E m \in channel :
        /\ m.to = "cs" /\ m.type = "START_RECORDING"
        /\ LET c == content[m.tab]
               started == [c EXCEPT !.sessionId = m.rec[1].id,
                                    !.events = <<NavigationEvent>>,
                                    !.isRecording = TRUE]
               e1 == [E EXCEPT !.content[m.tab] =
                                   IF c.isRecording THEN c ELSE started]
           IN  ExtBecomes(Send(Receive(e1, m), Msg("bg", "response", m.tab, m.h,
                                                   <<>>, <<>>)))
        /\ OtherUnchanged

\* handleMessage START_RECORDING after startRecording: sendResponse.
StartDone ==
    \E f \in handlers, m \in channel :
        /\ f.kind = "START" /\ f.pc = "awaitCs"
        /\ m.to = "bg" /\ m.type = "response" /\ m.h = f.h
        /\ ExtBecomes(Respond(Receive(E, m), f, TRUE))
        /\ OtherUnchanged

\* ---- STOP_RECORDING ---------------------------------------------------
\* The popup sends STOP_RECORDING: stopRecording returns null when nothing
\* is being recorded, and awaits chrome.tabs.query otherwise.
StopRequest ==
    /\ reqCount < MaxRequests
    /\ LET f == Frame(reqCount + 1, "STOP", "query", NoTab, NoRef, <<>>, NoUser)
           e1 == [E EXCEPT !.reqCount = @ + 1]
       IN  IF currentRecording = NoRef
           THEN ExtBecomes(Respond(e1, f, TRUE))
           ELSE ExtBecomes([e1 EXCEPT !.handlers = @ \cup {f}])
    /\ OtherUnchanged

\* stopRecording after tabs.query: STOP_RECORDING goes to the active tab.
StopNotify ==
    \E f \in handlers :
        /\ f.kind = "STOP" /\ f.pc = "query"
        /\ IF content[activeTab].loaded
           THEN ExtBecomes(Move(Send(E, Msg("cs", "STOP_RECORDING", activeTab,
                                             f.h, <<>>, <<>>)),
                                f, [f EXCEPT !.pc = "awaitCs", !.tab = activeTab]))
           ELSE ExtBecomes(Respond(E, f, FALSE))
        /\ OtherUnchanged

\* DOMRecorder.handleMessage STOP_RECORDING: stopRecording(), then
\* RECORDING_DATA to the background, then sendResponse.
CsStop ==
    \E m \in channel :
        /\ m.to = "cs" /\ m.type = "STOP_RECORDING"
        /\ LET c == content[m.tab]
               events == IF c.isRecording THEN c.events ELSE <<>>
               e1 == [E EXCEPT !.content[m.tab].isRecording = FALSE,
                               !.captured =
                                   IF c.isRecording
                                   THEN @ \cup {[id |-> c.sessionId,
                                                 events |-> events]}
                                   ELSE @]
           IN  ExtBecomes(Send(Send(Receive(e1, m),
                                    Msg("bg", "RECORDING_DATA", m.tab, m.h,
                                        events, <<>>)),
                               Msg("bg", "response", m.tab, m.h, <<>>, <<>>)))
        /\ OtherUnchanged

\* stopRecording after tabs.sendMessage: endTime and duration are set on
\* this.currentRecording (a TypeError when it is null), and saveRecording
\* reads the recordings.
StopSave ==
    \E f \in handlers, m \in channel :
        /\ f.kind = "STOP" /\ f.pc = "awaitCs"
        /\ m.to = "bg" /\ m.type = "response" /\ m.h = f.h
        /\ IF currentRecording = NoRef
           THEN ExtBecomes(Respond(Receive(E, m), f, FALSE))
           ELSE ExtBecomes(Move(
                    [Receive(E, m) EXCEPT !.heap[currentRecording].ended = TRUE],
                    f, [f EXCEPT !.pc = "saveGet", !.ref = currentRecording,
                                 !.list = storage.recordings]))
        /\ OtherUnchanged

\* saveRecording after storage.get: the list is updated and written.
SaveSet(e, f) == [e EXCEPT !.storage.recordings = Upsert(f.list, e.heap[f.ref])]

StopSaveSet ==
    \E f \in handlers :
        /\ f.kind = "STOP" /\ f.pc = "saveGet"
        /\ ExtBecomes(Move(SaveSet(E, f), f, [f EXCEPT !.pc = "saveSet"]))
        /\ OtherUnchanged

\* stopRecording after saveRecording: currentRecording is cleared, the
\* status is IDLE, saveState.
StopClear ==
    \E f \in handlers :
        /\ f.kind = "STOP" /\ f.pc = "saveSet"
        /\ ExtBecomes(Move(saveState([E EXCEPT !.currentRecording = NoRef,
                                               !.recordingStatus = IDLE]),
                           f, [f EXCEPT !.pc = "stateSaved",
                                        !.ref = currentRecording]))
        /\ OtherUnchanged

\* syncRecordingWithSupabase: chrome.storage.local.get("user").
StopSyncGet ==
    \E f \in handlers :
        /\ f.kind = "STOP" /\ f.pc = "stateSaved"
        /\ ExtBecomes(Move(E, f, [f EXCEPT !.pc = "userGot",
                                           !.user = storage.user]))
        /\ OtherUnchanged

\* The row syncRecordingWithSupabase inserts for a recording.
SupabaseRow(e, user, ref) ==
    [user_id |-> user,
     id |-> ref,
     events |-> IF ref = NoRef THEN <<>> ELSE e.heap[ref].events]

\* syncRecordingWithSupabase after the user is read: "User ID not found"
\* is thrown without a user id (handleMessage answers success: false);
\* otherwise the recording is inserted into the Supabase table.
syncRecordingWithSupabase(e, f) ==
    IF f.user = NoUser
    THEN Respond(e, f, FALSE)
    ELSE Move([e EXCEPT !.supabase = @ \cup {SupabaseRow(e, f.user, f.ref)}],
              f, [f EXCEPT !.pc = "inserted"])

StopSync ==
    \E f \in handlers :
        /\ f.kind = "STOP" /\ f.pc = "userGot"
        /\ ExtBecomes(syncRecordingWithSupabase(E, f))
        /\ OtherUnchanged

\* handleMessage STOP_RECORDING after stopRecording: sendResponse.
StopDone ==
    \E f \in handlers :
        /\ f.kind = "STOP" /\ f.pc = "inserted"
        /\ ExtBecomes(Respond(E, f, TRUE))
        /\ OtherUnchanged

\* ---- RECORDING_DATA ---------------------------------------------------
\* handleMessage RECORDING_DATA: with a currentRecording, its events are
\* replaced and saveRecording reads the recordings; without one the
\* message is only answered.
handleRecordingData(e, m) ==
    IF e.currentRecording # NoRef
    THEN [e EXCEPT !.heap[e.currentRecording].events = m.events,
                   !.handlers = @ \cup {Frame(10 + m.h, "DATA", "saveGet", m.tab,
                                              e.currentRecording,
                                              e.storage.recordings, NoUser)}]
    ELSE e

DataReceive ==
    \E m \in channel :
        /\ m.to = "bg" /\ m.type = "RECORDING_DATA"
        /\ ExtBecomes(handleRecordingData(Receive(E, m), m))
        /\ OtherUnchanged

\* saveRecording after storage.get, for RECORDING_DATA.
DataSaveSet ==
    \E f \in handlers :
        /\ f.kind = "DATA" /\ f.pc = "saveGet"
        /\ ExtBecomes([SaveSet(E, f) EXCEPT !.handlers = @ \ {f}])
        /\ OtherUnchanged

\* ---- PLAY_RECORDING ---------------------------------------------------
\* The popup's Play button of a listed recording: PLAY_RECORDING with its
\* id; the handler awaits chrome.tabs.query.
PlayRequest ==
    /\ reqCount < MaxRequests
    /\ \E i \in DOMAIN storage.recordings :
           ExtBecomes([E EXCEPT
               !.reqCount = @ + 1,
               !.handlers = @ \cup {Frame(reqCount + 1, "PLAY", "query", NoTab,
                                          storage.recordings[i].id, <<>>,
                                          NoUser)}])
    /\ OtherUnchanged

\* playRecording(recordingId, tabId): chrome.storage.local.get("recordings").
PlayGet ==
    \E f \in handlers :
        /\ f.kind = "PLAY" /\ f.pc = "query"
        /\ ExtBecomes(Move(E, f, [f EXCEPT !.pc = "got", !.tab = activeTab,
                                           !.list = storage.recordings]))
        /\ OtherUnchanged

\* playRecording after storage.get: "Recording not found" and "Recording has
\* no events" are thrown, otherwise PLAY_RECORDING goes to the tab.
PlaySend ==
    \E f \in handlers :
        /\ f.kind = "PLAY" /\ f.pc = "got"
        /\ LET found == {i \in DOMAIN f.list : f.list[i].id = f.ref}
               recording == f.list[CHOOSE i \in found : \A j \in found : i <= j]
           IN  IF /\ found # {}
                  /\ Len(recording.events) > 0
                  /\ content[f.tab].loaded
               THEN ExtBecomes(Move(Send(E, Msg("cs", "PLAY_RECORDING", f.tab,
                                                 f.h, <<>>, <<recording>>)),
                                    f, [f EXCEPT !.pc = "awaitCs"]))
               ELSE ExtBecomes(Respond(E, f, FALSE))
        /\ OtherUnchanged

\* DOMRecorder.handleMessage PLAY_RECORDING: isPlaybackEnabled() reads
\* chrome.storage.local.
CsPlayCheck ==
    \E m \in channel :
        /\ m.to = "cs" /\ m.type = "PLAY_RECORDING"
        /\ ExtBecomes([Receive(E, m) EXCEPT
               !.handlers = @ \cup {Frame(20 + m.h, "CSPLAY",
                                          IF storage.playbackEnabled
                                          THEN "enabled" ELSE "disabled",
                                          m.tab, m.h, m.rec, NoUser)},
               !.checked = @ \cup {[h |-> m.h,
                                    enabled |-> storage.playbackEnabled]}])
        /\ OtherUnchanged

\* DOMRecorder.playRecording: ZORDON_PLAY with the recording is posted to
\* the page (the player script is injected first when it is not there).
postZordonPlay(e, f) ==
    IF Len(f.list[1].events) > 0
    THEN Send(e, Msg("page", "ZORDON_PLAY", f.tab, f.ref, <<>>, f.list))
    ELSE e

\* A variant of the PLAY_RECORDING handler that plays whatever the flag.
handlePlayRecordingAlways(e, f) ==
    Send(postZordonPlay([e EXCEPT !.handlers = @ \ {f}], f),
         Msg("bg", "response", f.tab, f.ref, <<>>, <<>>))

\* handleMessage PLAY_RECORDING after isPlaybackEnabled: playRecording
\* when playback is enabled; sendResponse in both cases.
handlePlayRecording(e, f) ==
    Send(IF f.pc = "enabled"
         THEN postZordonPlay([e EXCEPT !.handlers = @ \ {f}], f)
         ELSE [e EXCEPT !.handlers = @ \ {f}],
         Msg("bg", "response", f.tab, f.ref, <<>>, <<>>))

CsPlay ==
    \E f \in handlers :
        /\ f.kind = "CSPLAY"
        /\ ExtBecomes(handlePlayRecording(E, f))
        /\ OtherUnchanged

\* handleMessage PLAY_RECORDING after playRecording: sendResponse.
PlayDone ==
    \E f \in handlers, m \in channel :
        /\ f.kind = "PLAY" /\ f.pc = "awaitCs"
        /\ m.to = "bg" /\ m.type = "response" /\ m.h = f.h
        /\ ExtBecomes(Respond(Receive(E, m), f, TRUE))
        /\ OtherUnchanged

\* The page's DOMPlayer receives ZORDON_PLAY: playRecording(recording).
PlayerReceive ==
    \E m \in channel :
        /\ m.to = "page" /\ m.type = "ZORDON_PLAY"
        /\ ExtBecomes([Receive(E, m) EXCEPT !.delivered = @ \cup {m.rec[1]}])
        /\ IF m.tab = PlayerTab
           THEN Becomes(playRecording([P EXCEPT !.playCount = @ + 1], timerSeq,
                                      StepsOrEmpty(m.rec[1])))
           ELSE Becomes(P)
        /\ UNCHANGED locVars

\* ---- The popup's delete button ----------------------------------------
\* recordings.filter(r => r.id !== recordingId)
WithoutId(list, id) == SelectSeq(list, LAMBDA r : r.id # id)

\* The delete button of a listed recording, the user confirming:
\* deleteRecording awaits chrome.storage.local.get("recordings").
DeleteRequest ==
    /\ Cardinality({f \in handlers : f.kind = "DELETE"})
         + Cardinality({a \in answers : a.kind = "DELETE"}) < MaxDeletes
    /\ \E i \in DOMAIN storage.recordings :
           ExtBecomes([E EXCEPT !.handlers = @ \cup
               {Frame(20 + Cardinality({a \in answers : a.kind = "DELETE"}),
                      "DELETE", "got", NoTab, storage.recordings[i].id,
                      storage.recordings, NoUser)}])
    /\ OtherUnchanged

\* deleteRecording after storage.get: the filtered list is written, the
\* list is reloaded and "Recording deleted" is shown.
DeleteSet ==
    \E f \in handlers :
        /\ f.kind = "DELETE" /\ f.pc = "got"
        /\ ExtBecomes(Respond([E EXCEPT !.storage.recordings =
                                           WithoutId(f.list, f.ref)],
                              f, TRUE))
        /\ OtherUnchanged

\* ---- TOGGLE_PLAYBACK, LOGIN_SUCCESS -----------------------------------
\* handleMessage TOGGLE_PLAYBACK: the flag is set and saveState is awaited.
ToggleRequest ==
    /\ reqCount < MaxRequests
    /\ \E enabled \in BOOLEAN :
           ExtBecomes(saveState([E EXCEPT
               !.reqCount = @ + 1,
               !.playbackEnabled = enabled,
               !.handlers = @ \cup {Frame(reqCount + 1, "TOGGLE", "saved", NoTab,
                                          NoRef, <<enabled>>, NoUser)}]))
    /\ OtherUnchanged

\* handleMessage TOGGLE_PLAYBACK after saveState: sendResponse.
ToggleDone ==
    \E f \in handlers :
        /\ f.kind = "TOGGLE" /\ f.pc = "saved"
        /\ ExtBecomes(Respond(E, f, TRUE))
        /\ OtherUnchanged

\* The popup's login button sends LOGIN: handleMessage opens the sign-in
\* page with chrome.tabs.create and breaks, without a sendResponse.  The
\* sign-in page is none of the tabs of the model.
LoginRequest ==
    /\ reqCount < MaxRequests
    /\ ExtBecomes([E EXCEPT !.reqCount = @ + 1])
    /\ OtherUnchanged

\* handleMessageExternal LOGIN_SUCCESS: the user is stored.
UserId == "u1"

ExternalLogin ==
    /\ storage.user = NoUser
    /\ ExtBecomes([E EXCEPT !.storage.user = UserId])
    /\ OtherUnchanged

\* ---- The service worker's start ---------------------------------------
\* loadState at its await: chrome.storage.local.get of playbackEnabled and
\* recordingStatus was called when the storage was st.
loadState(st) ==
    Frame(0, "LOAD", "get", NoTab, NoRef,
          <<[playbackEnabled |-> st.playbackEnabled,
             recordingStatus |-> st.recordingStatus]>>, NoUser)

\* loadState after storage.get: the two fields are assigned.
LoadDone ==
    \E f \in handlers :
        /\ f.kind = "LOAD"
        /\ ExtBecomes([E EXCEPT
               !.playbackEnabled = f.list[1].playbackEnabled,
               !.recordingStatus = IF f.list[1].recordingStatus = Undefined
                                   THEN IDLE ELSE f.list[1].recordingStatus,
               !.handlers = @ \ {f}])
        /\ OtherUnchanged

\* The browser stops the idle service worker and starts it again for the
\* next event: the fields have their initial values and the constructor
\* calls loadState.
Restart ==
    /\ restarts < MaxRestarts
    /\ handlers = {}
    /\ ExtBecomes([E EXCEPT !.restarts = @ + 1,
                            !.currentRecording = NoRef,
                            !.recordingStatus = IDLE,
                            !.playbackEnabled = FALSE,
                            !.handlers = {loadState(storage)}])
    /\ OtherUnchanged

\* ---- The user ---------------------------------------------------------
\* An interaction on a page that is being recorded: handleRecordedEvent
\* pushes the event.
UserInteract ==
    \E t \in Tabs :
        /\ content[t].isRecording
        /\ Len(content[t].events) < 1 + MaxEvents
        /\ ExtBecomes([E EXCEPT !.content[t].events = Append(@, ClickEvent)])
        /\ OtherUnchanged

\* The user moves on to the next tab.
SwitchTab ==
    /\ activeTab < NumTabs
    /\ ExtBecomes([E EXCEPT !.activeTab = @ + 1])
    /\ OtherUnchanged

\* The extension after installation: loadState found nothing stored.
EmptyStorage ==
    [recordings |-> <<>>, playbackEnabled |-> FALSE,
     recordingStatus |-> Undefined, currentRecording |-> <<>>,
     user |-> NoUser]

ContentIdle(loaded) ==
    [loaded |-> loaded, isRecording |-> FALSE, events |-> <<>>,
     sessionId |-> NoRef]

\* A recording of an earlier session, as stopRecording stored it.
PriorId == 100
PriorRecording ==
    [id |-> PriorId, events |-> <<NavigationEvent, ClickEvent>>,
     ended |-> TRUE, steps |-> Undefined]

BackgroundIdle ==
    /\ currentRecording = NoRef
    /\ recordingStatus = IDLE
    /\ playbackEnabled = FALSE
    /\ heap = <<>>
    /\ channel = {}
    /\ activeTab = 1
    /\ supabase = {}
    /\ answers = {}
    /\ reqCount = 0
    /\ captured = {}
    /\ delivered = {}
    /\ checked = {}
    /\ restarts = 0
    /\ currentStatus = IDLE

ExtIdle ==
    /\ BackgroundIdle
    /\ handlers = {}
    /\ storage = EmptyStorage
    /\ content = [t \in Tabs |-> ContentIdle(TRUE)]


(***************************************************************************)
(* The geometry of a click: createEventData records the offsets of the     *)
(* pointer in the target's bounding box, executeClick computes the point   *)
(* of the synthesized click from the box the element has at replay time.   *)
(* Boxes have even sizes, so that size / 2 is an integer.                  *)
(***************************************************************************)
MaxHalfSize == 2
Boxes ==
    LET sizes == {2 * k : k \in 1 .. MaxHalfSize}
    IN  [left : {0, 10}, top : {0, 10}, width : sizes, height : sizes]

NoClick == [phase |-> "none"]

\* createEventData, click: offsetX = clientX - rect.left (offsetY alike).
recordedOffset(client, origin) == client - origin

\* executeClick: clientX = rect.left + (step.offsetX || rect.width / 2)
\* (clientY alike); 0 is falsy.
clickCoordinate(origin, size, offset) ==
    origin + (IF offset # 0 THEN offset ELSE size \div 2)

\* DOMRecorder.createEventData on the click.
RecordClick ==
    /\ click.phase = "clicked"
    /\ click' = [phase |-> "recorded", rec |-> click.rec,
                 offsetX |-> recordedOffset(click.x, click.rec.left),
                 offsetY |-> recordedOffset(click.y, click.rec.top)]
    /\ UNCHANGED <<pageVars, lphase, recTarget, recSelectors, located, pace,
                   playerVars, extVars>>

\* The callback of executeClick, the element having box cur by now.
ReplayClick ==
    /\ click.phase = "recorded"
    /\ \E cur \in Boxes :
           click' = [phase |-> "replayed", rec |-> click.rec, cur |-> cur,
                     offsetX |-> click.offsetX, offsetY |-> click.offsetY,
                     clientX |-> clickCoordinate(cur.left, cur.width,
                                                 click.offsetX),
                     clientY |-> clickCoordinate(cur.top, cur.height,
                                                 click.offsetY)]
    /\ UNCHANGED <<pageVars, lphase, recTarget, recSelectors, located, pace,
                   playerVars, extVars>>

(***************************************************************************)
(* The pace of a playback: createEventData stamps each event with          *)
(* Date.now(), executeNextStep sets the timer of the next step.  Times     *)
(* are in milliseconds.                                                    *)
(***************************************************************************)
MaxTicks == 14

NoPace == [phase |-> "none"]

\* executeNextStep, having executed the step of the first event: the timer
\* of the step of the second event is set.
ScheduleNextStep ==
    /\ pace.phase = "recorded"
    /\ pace' = [phase |-> "scheduled", first |-> pace.first,
                second |-> pace.second, delay |-> StepDelay]
    /\ UNCHANGED <<pageVars, lphase, recTarget, recSelectors, located, click,
                   playerVars, extVars>>

(***************************************************************************)
(* The recorder / locator pipeline: an event on a target is recorded, the  *)
(* page drifts, the player locates the target.                             *)
(***************************************************************************)
\* The id a changed element gets: one no element had at record time.
LocInit ==
    /\ dom \in Pages
    /\ nested \in BOOLEAN
    /\ href = "page"
    /\ lphase = "page"
    /\ recTarget = Null
    /\ recSelectors = <<>>
    /\ located = Null
    /\ click = NoClick
    /\ pace = NoPace
    /\ PlayerIdle
    /\ ExtIdle

\* createEventData on an event whose target is t.
RecordEvent(t) ==
    /\ lphase = "page"
    /\ lphase' = "recorded"
    /\ recTarget' = t
    /\ recSelectors' = generateSelectors(dom, nested, t)
    /\ UNCHANGED <<dom, nested, href, located, click, pace,
                   playerVars, extVars>>

\* The page changes the id of the recorded target.
DriftId ==
    /\ lphase = "recorded"
    /\ dom[recTarget].id # ""
    /\ dom' = [dom EXCEPT ![recTarget].id = NewId]
    /\ lphase' = "drifted"
    /\ UNCHANGED <<nested, href, recTarget, recSelectors, located, click, pace,
                   playerVars, extVars>>

\* The page removes the recorded target.
DriftRemove ==
    /\ lphase = "recorded"
    /\ dom' = [dom EXCEPT ![recTarget].present = FALSE]
    /\ lphase' = "drifted"
    /\ UNCHANGED <<nested, href, recTarget, recSelectors, located, click, pace,
                   playerVars, extVars>>

\* The player resolves the recorded selectors on the live page.
Locate ==
    /\ lphase \in {"recorded", "drifted"}
    /\ located' = findElement(dom, nested, recSelectors)
    /\ lphase' = "located"
    /\ UNCHANGED <<dom, nested, href, recTarget, recSelectors, click, pace,
                   playerVars, extVars>>


(***************************************************************************)
(* One playback: a single ZORDON_PLAY message, then the timers.            *)
(***************************************************************************)
LocIdle ==
    /\ lphase = "page"
    /\ recTarget = Null
    /\ recSelectors = <<>>
    /\ located = Null
    /\ click = NoClick
    /\ pace = NoPace

ReplayInit ==
    /\ dom \in PlayerPages
    /\ nested = FALSE
    /\ href \in {"page", "elsewhere"}
    /\ LocIdle
    /\ PlayerIdle
    /\ ExtIdle

\* Two recorded sessions; a ZORDON_PLAY message of the general player
\* specification carries the first k steps of one of them, k <= MaxSteps.
SessionA ==
    <<recordNavigationStep, ClickStep, ChangeStep, KeyStep, ScrollStep>>
SessionB ==
    <<ClickStep, ThrowingStep, UnsupportedStep, ClickStep, ChangeStep>>

Min(a, b) == IF a <= b THEN a ELSE b

PlayLists ==
    {SubSeq(s, 1, k) : s \in {SessionA, SessionB},
                       k \in 0 .. Min(MaxSteps, Len(SessionA))}

ZordonPlayOnce == \E rec \in StepLists : playCount = 0 /\ ZordonPlay(rec)

vars == <<pageVars, locVars, playerVars, extVars>>

LocNext ==
    \/ \E t \in Elems : RecordEvent(t)
    \/ DriftId
    \/ DriftRemove
    \/ Locate

SpecLocate == LocInit /\ [][LocNext]_vars

ReplayNext ==
    \/ ZordonPlayOnce
    \/ StepTimer
    \/ DispatchTimer
    \/ UnhighlightTimer
    \/ CleanupTimer

\* The event loop runs a pending timer whose turn it is.
TimerFairness ==
    /\ WF_vars(StepTimer)
    /\ WF_vars(DispatchTimer)
    /\ WF_vars(UnhighlightTimer)
    /\ WF_vars(CleanupTimer)

\* Any sequence of ZORDON_PLAY messages, interleaved with the timers.
PlayerNext ==
    \/ \E rec \in PlayLists : ZordonPlay(rec)
    \/ StepTimer
    \/ DispatchTimer
    \/ UnhighlightTimer
    \/ CleanupTimer

SpecPlayer == ReplayInit /\ [][PlayerNext]_vars /\ TimerFairness

SpecReplay == ReplayInit /\ [][ReplayNext]_vars /\ TimerFairness

\* The extension when the popup opens: recordings of earlier sessions may
\* be stored, and a tab opened before the extension was installed has no
\* content script.
ExtInit ==
    /\ dom = RecordedPage
    /\ nested = FALSE
    /\ href = "page"
    /\ LocIdle
    /\ PlayerIdle
    /\ BackgroundIdle
    /\ storage \in {EmptyStorage,
                    [EmptyStorage EXCEPT !.recordings = <<PriorRecording>>]}
    /\ handlers = {loadState(storage)}
    /\ content \in {[t \in Tabs |-> ContentIdle(t < NumTabs \/ b)] :
                        b \in BOOLEAN}

ExtNext ==
    \/ StartRequest \/ StartSetup \/ StartNotify \/ CsStart \/ StartDone
    \/ StopRequest \/ StopNotify \/ CsStop \/ StopSave \/ StopSaveSet
    \/ StopClear \/ StopSyncGet \/ StopSync \/ StopDone
    \/ DataReceive \/ DataSaveSet
    \/ PlayRequest \/ PlayGet \/ PlaySend \/ CsPlayCheck \/ CsPlay
    \/ PlayDone \/ PlayerReceive
    \/ DeleteRequest \/ DeleteSet
    \/ ToggleRequest \/ ToggleDone
    \/ LoadDone \/ Restart \/ LoginRequest
    \/ ExternalLogin \/ UserInteract \/ SwitchTab

SpecExt == ExtInit /\ [][ExtNext]_vars

\* One click at (x, y) inside the box the target has at record time: it is
\* recorded, then replayed on a box of any size.
ClickInit ==
    /\ dom = RecordedPage
    /\ nested = FALSE
    /\ href = "page"
    /\ lphase = "page"
    /\ recTarget = Null
    /\ recSelectors = <<>>
    /\ located = Null
    /\ \E rec \in Boxes :
           \E x \in rec.left .. rec.left + rec.width,
              y \in rec.top .. rec.top + rec.height :
               click = [phase |-> "clicked", rec |-> rec, x |-> x, y |-> y]
    /\ pace = NoPace
    /\ PlayerIdle
    /\ ExtIdle

ClickNext == RecordClick \/ ReplayClick

SpecClick == ClickInit /\ [][ClickNext]_vars

\* Two consecutive events of a recording, stamped first and second, and the
\* playback of their steps.
PaceInit ==
    /\ dom = RecordedPage
    /\ nested = FALSE
    /\ href = "page"
    /\ lphase = "page"
    /\ recTarget = Null
    /\ recSelectors = <<>>
    /\ located = Null
    /\ click = NoClick
    /\ \E a, b \in {250 * k : k \in 0 .. MaxTicks} :
           a <= b /\ pace = [phase |-> "recorded", first |-> a, second |-> b]
    /\ PlayerIdle
    /\ ExtIdle

SpecPace == PaceInit /\ [][ScheduleNextStep]_vars

(***************************************************************************)
(* The claims.                                                             *)
(***************************************************************************)
\* The executeStep calls of playback k, in order.
PlayLog(k) ==
    LET OfPlay(x) == x.play = k
    IN  SelectSeq(execLog, OfPlay)

\* The playback has ended with the cursor at the end and the completion
\* message shown.
Completed ==
    /\ ~isPlaying
    /\ Len(steps) > 0
    /\ currentStepIndex = Len(steps)
    /\ Len(PlayLog(playCount)) = Len(steps)
    /\ playerContainer = CompleteHtml

\* C1: a playback of a non-empty step list on a fresh player, with no
\* further ZORDON_PLAY, always reaches the completed state with
\* currentStepIndex = steps.length, whether or not steps fail.
C1_ReplayCompletes == isPlaying ~> Completed

\* A completed playback of a step that throws, a step of an unsupported
\* type and a click whose target is gone.
C1_Witness ==
    /\ Completed
    /\ ~dom[2].present
    /\ \E i, j, k \in DOMAIN steps :
           /\ steps[i] = ThrowingStep
           /\ steps[j] = UnsupportedStep
           /\ steps[k] = ClickStep

\* C2: within each playback executeStep is called on steps[0], steps[1],
\* ... in this order, each at most once and none skipped; while playing,
\* the steps executed are exactly those below currentStepIndex.
C2_StepsInOrder ==
    /\ \A k \in 1 .. playCount :
           \A i \in DOMAIN PlayLog(k) : PlayLog(k)[i].idx = i - 1
    /\ isPlaying => Len(PlayLog(playCount)) = currentStepIndex

\* A second playback has executed three steps after a first one executed
\* some.
C2_Witness ==
    /\ playCount = 2
    /\ Len(PlayLog(1)) >= 1
    /\ Len(PlayLog(2)) >= 3

\* C3: 0 <= currentStepIndex <= steps.length in every state, under any
\* interleaving of ZORDON_PLAY messages and timers.
C3_CursorInRange == 0 <= currentStepIndex /\ currentStepIndex <= Len(steps)

\* The cursor is at the end of a second playback while the cleanup timer of
\* the first one is still pending.
C3_Witness ==
    /\ playCount = 2
    /\ Len(steps) > 0
    /\ currentStepIndex = Len(steps)
    /\ \E t \in timers : t.kind = "cleanup" /\ t.play = 1

\* C4: once the handlers have finished, the recording stored under the id
\* of a session that was stopped while recording holds exactly the events
\* its content script captured, however RECORDING_DATA interleaves with
\* the continuation of stopRecording.
C4_SavedEventsAreCaptured ==
    (handlers = {} /\ channel = {}) =>
        \A c \in captured :
            \E i \in DOMAIN storage.recordings :
                /\ storage.recordings[i].id = c.id
                /\ storage.recordings[i].events = c.events

\* C5: once the page's player has been handed a stored recording that was
\* captured with at least one interaction, it has executed a step (the
\* first step runs in the handler of ZORDON_PLAY itself).
C5_PlayExecutesSteps ==
    (\E r \in delivered : \E i \in DOMAIN r.events : r.events[i].type = "click")
        => execLog # <<>>

\* C6: no recording data is sent to an external service.
C6_NothingLeavesTheBrowser == supabase = {}

\* The first selector of the list, and the elements it matches.
FirstSelector == Flatten(recSelectors)[1]
FirstMatches == MatchSet(dom, nested, FirstSelector)

IdDrifted ==
    /\ recTarget # Null
    /\ dom[recTarget].present
    /\ dom[recTarget].id = NewId
    /\ dom[recTarget].testid # ""
    /\ Len(Flatten(recSelectors)) > 0
    /\ FirstSelector.kind = "id"
    /\ FirstMatches = {}
    /\ \E i \in DOMAIN Flatten(recSelectors) :
           /\ Flatten(recSelectors)[i].kind = "attr"
           /\ Flatten(recSelectors)[i].testid = dom[recTarget].testid
           /\ MatchSet(dom, nested, Flatten(recSelectors)[i]) = {recTarget}

\* C8: when the target's id has changed and its data-testid has not, the
\* element findElement returns is the recorded target.
C8_IdDriftFindsTarget ==
    (lphase = "located" /\ IdDrifted) => located = recTarget

\* Scenario B: three steps, the second a click on the removed button, the
\* other two on targets that are there.
ScenarioB ==
    /\ Len(steps) = 3
    /\ ~dom[2].present
    /\ steps[2] = ClickStep
    /\ steps[1] \in {recordNavigationStep, ChangeStep}
    /\ steps[3] \in {ChangeStep, KeyStep, ScrollStep}

\* C9: when the replay of scenario B has ended, with steps 1 and 3
\* executed, the player does not report that all steps succeeded.
C9_FailureNotReportedAsSuccess ==
    (ScenarioB /\ ~isPlaying /\ Len(execLog) = 3)
        => playerContainer # CompleteHtml

StepTimers == {t \in timers : t.kind = "step"}

C12_CompletedOnlyAtEnd ==
    playerContainer = CompleteHtml =>
        /\ ~isPlaying
        /\ currentStepIndex = Len(steps)
        /\ Len(PlayLog(playCount)) = Len(steps)

\* The second playback has completed a list of three steps.
C12_Witness ==
    /\ playCount = 2
    /\ playerContainer = CompleteHtml
    /\ Len(steps) = 3

\* C13: a ZORDON_PLAY message whose recording has no steps raises the
\* alert and starts nothing: no executeStep call, no step timer, isPlaying
\* false, no player container.
C13_EmptyReplayRefused ==
    [][(playCount' = playCount + 1 /\ steps' = <<>>) =>
          /\ alerts' = alerts + 1
          /\ execLog' = execLog
          /\ {t \in timers' : t.kind = "step"} = {}
          /\ ~isPlaying'
          /\ playerContainer' = NoContainer]_vars

\* An empty recording arrived while a first playback was running.
C13_Witness ==
    /\ playCount = 2
    /\ steps = <<>>
    /\ alerts = 1
    /\ PlayLog(1) # <<>>
    /\ Len(PlayLog(1)) < 3
    /\ PlayLog(2) = <<>>

\* C14: a ZORDON_PLAY message is posted to the page, and the player is
\* handed a recording, only for a PLAY_RECORDING message whose
\* isPlaybackEnabled() check read TRUE from storage.
C14_NoPlayWhenDisabled ==
    /\ \A m \in channel :
           m.to = "page" => [h |-> m.h, enabled |-> TRUE] \in checked
    /\ (delivered # {} \/ playCount > 0) => \E c \in checked : c.enabled

\* A PLAY_RECORDING message was checked with the flag off and answered,
\* and nothing was posted, although the flag has been switched on since.
C14_Witness ==
    /\ \E c \in checked :
           /\ ~c.enabled
           /\ [req |-> c.h, kind |-> "PLAY", ok |-> TRUE] \in answers
    /\ storage.playbackEnabled
    /\ delivered = {}
    /\ \A m \in channel : m.to # "page"

\* C15: the selectors generated for a recorded target are a non-empty
\* list of non-empty candidates, one of which is the tag name alone.
C15_TagFallbackAlwaysThere ==
    lphase # "page" =>
        /\ recSelectors # <<>>
        /\ \A i \in DOMAIN recSelectors : recSelectors[i] # <<>>
        /\ \E i \in DOMAIN recSelectors :
               recSelectors[i] = <<PathSel(dom[recTarget].tag, 0)>>

\* The kind of a candidate in the claimed order: 1 id-based, 2
\* attribute-based, 3 structural path or tag only; 0 for a class-based
\* candidate, which the order does not mention.
CandidateRank(c) ==
    IF Len(c) = 1 /\ c[1].kind = "id" THEN 1
    ELSE IF c[1].kind = "attr" THEN 2
    ELSE IF c[Len(c)].kind = "path" THEN 3
    ELSE 0

\* C16: in the generated list an id-based candidate comes before an
\* attribute-based one, and an attribute-based one before a path or
\* tag-only one.
C16_CandidateOrder ==
    lphase # "page" =>
        \A i, j \in DOMAIN recSelectors :
            (/\ i < j
             /\ CandidateRank(recSelectors[i]) > 0
             /\ CandidateRank(recSelectors[j]) > 0)
                => CandidateRank(recSelectors[i]) <= CandidateRank(recSelectors[j])

\* The positions in `dispatched` of the events ev of step n (1-based) of
\* the playback.
EventsAt(n, ev) ==
    {i \in DOMAIN dispatched :
        dispatched[i].idx = n - 1 /\ dispatched[i].ev = ev}

\* Step n is a change step whose target findElement locates.
LocatedChange(n) ==
    /\ steps[n].type = "change"
    /\ ~Throws(steps[n])
    /\ findElement(dom, nested, steps[n].selectors) # Null

\* C17: an input event is dispatched with the element's value already
\* set to the recorded value and is followed at once by the change event
\* of the same step on the same element, and a change event only follows
\* such an input event; when the playback has completed and the deferred
\* callbacks have run, each change step with a located target has
\* dispatched exactly one input and one change event on it.
C17_ChangeSetsThenNotifies ==
    /\ \A i \in DOMAIN dispatched :
           /\ dispatched[i].ev = "input" =>
                  /\ dispatched[i].value = dispatched[i].recorded
                  /\ i + 1 \in DOMAIN dispatched
                  /\ dispatched[i + 1] = [dispatched[i] EXCEPT !.ev = "change"]
           /\ dispatched[i].ev = "change" =>
                  /\ i - 1 \in DOMAIN dispatched
                  /\ dispatched[i - 1].ev = "input"
    /\ (Completed /\ \A t \in timers : t.kind = "cleanup") =>
           \A n \in DOMAIN steps :
               LocatedChange(n) =>
                   /\ Cardinality(EventsAt(n, "input")) = 1
                   /\ Cardinality(EventsAt(n, "change")) = 1
                   /\ \A i \in EventsAt(n, "input") :
                          /\ dispatched[i].el =
                                 findElement(dom, nested, steps[n].selectors)
                          /\ dispatched[i].recorded = steps[n].value

\* A completed playback of two change steps on the input, whose callbacks
\* have run.
C17_Witness ==
    /\ Completed
    /\ \A t \in timers : t.kind = "cleanup"
    /\ Len(steps) = 3
    /\ LocatedChange(1)
    /\ LocatedChange(3)
    /\ dom[1].value = "v"
    /\ Len(dispatched) >= 4

\* C18: the replayed click is at the origin of the current box plus the
\* recorded offset scaled from the recorded box size to the current one:
\* (clientX - left) / width equals offsetX / recorded width, and alike
\* for y.
C18_ClickOffsetScaled ==
    click.phase = "replayed" =>
        /\ (click.clientX - click.cur.left) * click.rec.width
               = click.offsetX * click.cur.width
        /\ (click.clientY - click.cur.top) * click.rec.height
               = click.offsetY * click.cur.height

\* C19: executing a navigate step changes neither the page's location nor
\* any element nor the scroll position, dispatches no event, raises no
\* alert and defers no DOM action, and the playback goes on to the next
\* step, whether or not the recorded url is the page's.
C19_NavigateTouchesNothing ==
    [][(/\ Len(execLog') = Len(execLog) + 1
        /\ steps'[execLog'[Len(execLog')].idx + 1].type = "navigate")
       => /\ href' = href
          /\ dom' = dom
          /\ scrollY' = scrollY
          /\ dispatched' = dispatched
          /\ alerts' = alerts
          /\ \A t \in timers' \ timers : t.kind = "step"
          /\ isPlaying'
          /\ currentStepIndex' = execLog'[Len(execLog')].idx + 1
          /\ playbackInterval' # NoTimer]_vars

\* A navigate step whose url is not the page's has just been executed.
C19_Witness ==
    /\ isPlaying
    /\ currentStepIndex > 0
    /\ Len(execLog) > 0
    /\ execLog[Len(execLog)].play = playCount
    /\ execLog[Len(execLog)].idx = currentStepIndex - 1
    /\ steps[currentStepIndex].type = "navigate"
    /\ steps[currentStepIndex].url # href
    /\ href = "elsewhere"

\* C20: when deleteRecording(id) has written the recordings, storage holds
\* no recording with that id, and every other recording storage held just
\* before the write, one the background saved after the delete began
\* included, is still stored.
C20_DeleteRemovesOnlyThatId ==
    [][\A f \in handlers :
           (f.kind = "DELETE" /\ f \notin handlers')
           => /\ \A j \in DOMAIN storage'.recordings :
                     storage'.recordings[j].id # f.ref
              /\ \A i \in DOMAIN storage.recordings :
                     storage.recordings[i].id # f.ref
                     => \E j \in DOMAIN storage'.recordings :
                            storage'.recordings[j] = storage.recordings[i]]_vars

\* C21: when the only TOGGLE_PLAYBACK request so far, with enabled = v, is
\* answered, this.playbackEnabled (which the response's enabled field and
\* GET_STATUS report) and the stored playbackEnabled are both v, however
\* the request interleaves with loadState.
C21_ToggleTakesEffect ==
    [][\A f \in handlers :
           (/\ f.kind = "TOGGLE"
            /\ f \notin handlers'
            /\ \A g \in handlers : g.kind = "TOGGLE" => g = f
            /\ \A a \in answers : a.kind # "TOGGLE")
           => /\ playbackEnabled' = f.list[1]
              /\ storage'.playbackEnabled = f.list[1]]_vars

\* The steps playback k executed, and what it dispatched: per event the
\* step, the element the step resolved to, the event and the value the
\* element had.
StepsRun(k) == [i \in DOMAIN PlayLog(k) |-> PlayLog(k)[i].step]
Outcome(k) ==
    LET OfPlay(x) == x.play = k
        d == SelectSeq(dispatched, OfPlay)
    IN  [i \in DOMAIN d |-> [idx |-> d[i].idx, el |-> d[i].el, ev |-> d[i].ev,
                             value |-> d[i].value]]

C23_DelayFollowsRecordedGap ==
    pace.phase = "scheduled" =>
        \/ pace.delay * playbackSpeed = pace.second - pace.first
        \/ pace.delay * playbackSpeed < pace.second - pace.first

\* C24: the stored recordings have pairwise distinct ids, also when the
\* saveRecording calls of RECORDING_DATA and of stopRecording overlap.
C24_StoredIdsDistinct ==
    \A i, j \in DOMAIN storage.recordings :
        storage.recordings[i].id = storage.recordings[j].id => i = j

\* stopRecording and RECORDING_DATA both read the recordings before the
\* session was stored, and one of them has written it since.
C24_Witness ==
    \E f, g \in handlers :
        /\ f.kind = "STOP" /\ f.pc \in {"saveGet", "saveSet"}
        /\ g.kind = "DATA" /\ g.ref = f.ref
        /\ \A i \in DOMAIN f.list : f.list[i].id # heap[f.ref].id
        /\ \A i \in DOMAIN g.list : g.list[i].id # heap[f.ref].id
        /\ \E i \in DOMAIN storage.recordings :
               storage.recordings[i].id = heap[f.ref].id

\* C25: no deferred dispatch of a step is still pending when executeStep
\* has begun for a later step of the same playback: the events of step i
\* are dispatched before step i+1 is executed.
C25_DispatchBeforeNextStep ==
    \A t \in timers :
        t.kind \in {"click", "change", "keyDown", "keyUp"}
        => \A i \in DOMAIN execLog :
               execLog[i].play = t.play => execLog[i].idx <= t.idx

\* A step has dispatched its events and the next step has been executed.
C25_Witness ==
    \E i \in DOMAIN dispatched, j \in DOMAIN execLog :
        /\ execLog[j].play = dispatched[i].play
        /\ execLog[j].idx = dispatched[i].idx + 1
        /\ execLog[j].step.type \in {"click", "change", "keyDown", "keyUp"}

\* C26: whenever no background message handler is in progress,
\* recordingStatus is RECORDING exactly when currentRecording is not null.
C26_StatusMatchesRecording ==
    (\A f \in handlers : f.kind \in {"LOAD", "DELETE"})
    => (recordingStatus = RECORDING <=> currentRecording # NoRef)

\* C27: when START_RECORDING is answered with success = false because the
\* tab's content script cannot be reached, no recording is in progress in
\* memory nor in storage: the status is idle and there is no
\* currentRecording on either side.
C27_FailedStartLeavesNoTrace ==
    [][\A f \in handlers :
           (/\ f.kind = "START" /\ f.pc = "saved"
            /\ f \notin handlers'
            /\ ~content[f.tab].loaded)
           => /\ [req |-> f.h, kind |-> "START", ok |-> FALSE] \in answers'
              /\ recordingStatus' = IDLE
              /\ currentRecording' = NoRef
              /\ storage'.recordingStatus # RECORDING
              /\ storage'.currentRecording = <<>>]_vars

\* C28: a START_RECORDING request handled while a recording is in progress
\* (and no other handler is) leaves this.currentRecording the session it
\* was, and the START_RECORDING it sends to a content script that is
\* recording leaves the script's sessionId and events as they were.
C28_StartWhileRecordingKeepsSession ==
    [][/\ \A f \in handlers :
              (/\ f.kind = "START" /\ f.pc = "query"
               /\ f \notin handlers'
               /\ handlers = {f}
               /\ recordingStatus = RECORDING
               /\ currentRecording # NoRef)
              => /\ currentRecording' # NoRef
                 /\ heap'[currentRecording'] = heap[currentRecording]
       /\ \A m \in channel :
              (/\ m.to = "cs" /\ m.type = "START_RECORDING"
               /\ m \notin channel'
               /\ content[m.tab].isRecording)
              => content'[m.tab] = content[m.tab]]_vars

\* C29: when a STOP_RECORDING request is answered and no START_RECORDING is
\* being handled, no content script of any tab is recording.
C29_StopStopsEveryTab ==
    [][\A f \in handlers :
           (/\ f.kind = "STOP"
            /\ f \notin handlers'
            /\ \E a \in answers' : a.req = f.h /\ a.kind = "STOP"
            /\ \A g \in handlers : g.kind # "START")
           => \A t \in Tabs : ~content'[t].isRecording]_vars

\* C30: every request the background's onMessage handler has finished
\* handling was answered by exactly one sendResponse call.
C30_EveryMessageAnsweredOnce ==
    \A r \in 1 .. reqCount :
        (\A f \in handlers : f.h # r)
        => Cardinality({a \in answers : a.req = r}) = 1

\* C31: when the popup's startRecording() or stopRecording() has got its
\* response, no other START_RECORDING or STOP_RECORDING is being handled
\* and the background's recordingStatus agrees with its currentRecording,
\* the popup's currentStatus is the background's recordingStatus, also
\* when the sync after the stop has failed.
C31_PopupStatusMatchesBackground ==
    [][\A a \in answers' \ answers :
           (/\ a.kind \in {"START", "STOP"}
            /\ \A f \in handlers' : f.kind \notin {"START", "STOP"}
            /\ recordingStatus' = RECORDING <=> currentRecording' # NoRef)
           => currentStatus' = recordingStatus']_vars

====
